---- MODULE Spec2Model ----
(***************************************************************************)
(* bueno: the `fmt` tool (src/bueno/tools/fmt.rs).                         *)
(*                                                                         *)
(* Two specifications over one set of variables:                           *)
(*   FormatSpec  format_file applied to one (extension, text) input, then  *)
(*               to the same text or one of its blocks under a second      *)
(*               extension;                                                *)
(*   Spec        one run of fmt(options) over a glob expansion.            *)
(*                                                                         *)
(* A text is abstracted by what a formatter can observe of it:             *)
(*   dir     the whole-file directive its first comment carries ("" none)  *)
(*   syn     which grammars accept it                                      *)
(*   form    how far it is from the printer's canonical layout             *)
(*   blocks  the fenced code blocks a prose parser finds in it             *)
(***************************************************************************)
EXTENDS Naturals, Sequences, FiniteSets, TLC

VARIABLES
    propagateBlockErr, \* the prose printer's (unspecified) handling of a failed block callback
    nodeMarkerCoversFile, \* whether the structured-data printer takes a leading
                       \* `bueno-fmt-ignore-file` comment for its node marker `bueno-fmt-ignore`
    mode,              \* "format" (FormatSpec) or "fmt" (Spec)
    \* ---- FormatSpec: format_file(ext, contents) and format_file(ext2, contents)
    ext, contents, fpc, result, ext2, contents2, result2,
    \* ---- Spec: fmt(options)
    check,     \* options.check
    patternOk, \* whether options.glob is a valid pattern
    entries,   \* what the glob iterator yields, in order
    disk,      \* path -> file contents
    disk0,     \* the disk when the run started (history)
    idx,       \* the iterator's position: entries[idx] is the current entry
    pc,        \* the position in the body of fmt
    buf,       \* `contents` (line 83)
    text,      \* the result of format_file (line 85)
    ret,       \* what fmt returned
    log        \* history: reads, format_file calls, printed lines, writes, in order

vars == <<propagateBlockErr, nodeMarkerCoversFile, mode, ext, contents, fpc, result, ext2, contents2, result2,
          check, patternOk, entries, disk, disk0, idx, pc, buf, text,
          ret, log>>

fvars == <<ext, contents, fpc, result, ext2, contents2, result2>>
dvars == <<check, patternOk, entries, disk, disk0, idx, pc, buf, text,
           ret, log>>

(***************************************************************************)
(* Bounds of the model.                                                    *)
(***************************************************************************)
MaxBlocks == 2    \* fenced code blocks per prose document
MaxDepth == 2     \* nesting of prose documents inside fenced blocks
MaxEntries == 3   \* entries the glob iterator yields in one run

(***************************************************************************)
(* Texts.                                                                  *)
(***************************************************************************)
IgnoreFileMarker == "bueno-fmt-ignore-file"

Syntaxes == {"plain", "jsx", "types", "bad"}
Forms == {"canon", "messy", "unstable"}

Leaf(d, s, f) == [dir |-> d, syn |-> s, form |-> f, blocks |-> <<>>]

Leaves == {Leaf(d, s, f) : d \in {"", IgnoreFileMarker}, s \in Syntaxes, f \in Forms}

\* The texts fenced blocks and files are drawn from.
Canon == Leaf("", "plain", "canon")
Messy == Leaf("", "plain", "messy")
Broken == Leaf("", "bad", "messy")
IgnoredBroken == Leaf(IgnoreFileMarker, "bad", "messy")
Truncated == Leaf("", "bad", "canon")   \* what a failed write may leave behind

BlockTags == {"json", "ts", "md", "txt"}

SeqsUpTo(S, n) == UNION {[1..k -> S] : k \in 1..n}

RECURSIVE DocsAt(_)
DocsAt(d) ==
    IF d = 0 THEN {Messy, Broken}
    ELSE LET inner == DocsAt(d - 1)
             blks == [tag : BlockTags, text : inner]
             seqs == IF d = 1 THEN SeqsUpTo(blks, MaxBlocks)
                     ELSE {<<b>> : b \in {x \in blks : x.tag = "md" /\ x.text.blocks # <<>>}}
         IN {[Canon EXCEPT !.blocks = s] : s \in seqs}

Docs == UNION {DocsAt(d) : d \in 1..MaxDepth}

Texts == Leaves \cup Docs

RECURSIVE Depth(_)
Depth(t) ==
    IF t.blocks = <<>> THEN 0
    ELSE LET ds == {Depth(t.blocks[i].text) : i \in 1..Len(t.blocks)}
         IN 1 + CHOOSE m \in ds : \A n \in ds : n <= m

(***************************************************************************)
(* Result<Option<String>, AnyError>.                                       *)
(***************************************************************************)
NoText == [dir |-> "", syn |-> "", form |-> "", blocks |-> <<>>]
OkNone == [kind |-> "None", text |-> NoText, err |-> ""]
OkSome(t) == [kind |-> "Some", text |-> t, err |-> ""]
Err(e) == [kind |-> "Err", text |-> NoText, err |-> e]

(***************************************************************************)
(* Paths: a file name as its dot-separated segments ("a.ts" is             *)
(* <<"a", "ts">>, ".js" is <<"", "js">>, "README" is <<"README">>).        *)
(* An Option<&str> is the empty or the one-element sequence.               *)
(***************************************************************************)
\* std::path::Path::extension: the part after the last dot; None when the
\* name has no dot, or only a leading one.
extension(path) ==
    IF Len(path) < 2 \/ (Len(path) = 2 /\ path[1] = "") THEN <<>>
    ELSE <<path[Len(path)]>>

fake_path(e) == <<"file", e>>

(***************************************************************************)
(* The formatter configurations built in fmt.rs.                           *)
(***************************************************************************)
\* Mutant: the whole-file marker is left at the printer's default.
typescript_configuration_DefaultFileMarker ==
    [preset |-> "deno",
     use_tabs |-> TRUE,
     quote_props |-> "AsNeeded",
     comment_line_force_space_after_slashes |-> TRUE,
     ignore_node_comment_text |-> "bueno-fmt-ignore",
     ignore_file_comment_text |-> "dprint-ignore-file",
     module_sort_import_declarations |-> "CaseInsensitive",
     module_sort_export_declarations |-> "CaseInsensitive"]

typescript_configuration ==
    [preset |-> "deno",
     use_tabs |-> TRUE,
     quote_props |-> "AsNeeded",
     comment_line_force_space_after_slashes |-> TRUE,
     ignore_node_comment_text |-> "bueno-fmt-ignore",
     ignore_file_comment_text |-> "bueno-fmt-ignore-file",
     module_sort_import_declarations |-> "CaseInsensitive",
     module_sort_export_declarations |-> "CaseInsensitive"]

json_configuration ==
    [line_width |-> 80,
     use_tabs |-> TRUE,
     ignore_node_comment_text |-> "bueno-fmt-ignore",
     comment_line_force_space_after_slashes |-> TRUE]

markdown_configuration ==
    [text_wrap |-> "Always",
     ignore_directive |-> "bueno-fmt-ignore",
     ignore_start_directive |-> "bueno-fmt-ignore-start",
     ignore_end_directive |-> "bueno-fmt-ignore-end",
     ignore_file_directive |-> "bueno-fmt-ignore-file"]

\* The whole-file ignore marker a configuration carries, "" when it has none.
WholeFileMarker(config) ==
    IF "ignore_file_comment_text" \in DOMAIN config THEN config.ignore_file_comment_text
    ELSE IF "ignore_file_directive" \in DOMAIN config THEN config.ignore_file_directive
    ELSE ""

(***************************************************************************)
(* The language formatter capabilities (external pretty-printers): text    *)
(* and configuration in, "no change", replacement text or a syntax error   *)
(* out.                                                                    *)
(***************************************************************************)
\* One pass of a printer over a text that parsed.
Pretty(t) == [t EXCEPT !.form = IF @ = "unstable" THEN "messy" ELSE "canon"]

\* None when the printed text is the input, Some(printed) otherwise.
Changed(t, out) == IF out = t THEN OkNone ELSE OkSome(out)

\* The grammar the script printer picks from the path's extension.
ScriptParses(path, syn) ==
    LET e == extension(path) IN
    CASE syn = "plain" -> TRUE
      [] syn = "jsx" -> e \in {<<"js">>, <<"jsx">>, <<"tsx">>}
      [] syn = "types" -> e \in {<<"ts">>, <<"tsx">>}
      [] OTHER -> FALSE

dprint_plugin_typescript_format_text(path, t, config) ==
    IF t.dir # "" /\ t.dir = config.ignore_file_comment_text THEN OkNone
    ELSE IF ~ScriptParses(path, t.syn) THEN Err("syntax")
    ELSE Changed(t, Pretty(t))

\* No whole-file marker exists for this printer.  A leading comment that
\* extends the node marker may or may not keep the root value as written.
dprint_plugin_json_format_text(t, config) ==
    IF t.syn # "plain" THEN Err("syntax")
    ELSE IF nodeMarkerCoversFile /\ t.dir = config.ignore_node_comment_text \o "-file"
    THEN OkNone
    ELSE Changed(t, Pretty(t))

\* The callback is invoked once per fenced block with the block's tag and
\* text; `calls` holds those invocations and what each returned.
dprint_plugin_markdown_format_text(t, config, calls) ==
    IF t.dir # "" /\ t.dir = config.ignore_file_directive THEN OkNone
    ELSE IF t.syn = "bad" THEN Err("syntax")
    ELSE LET rs == [i \in 1..Len(t.blocks) |-> calls[i].result]
             failed == {i \in 1..Len(t.blocks) : rs[i].kind = "Err"}
             blks == [i \in 1..Len(t.blocks) |->
                         IF rs[i].kind = "Some"
                         THEN [t.blocks[i] EXCEPT !.text = rs[i].text]
                         ELSE t.blocks[i]]
         IN IF propagateBlockErr /\ failed # {}
            THEN rs[CHOOSE i \in failed : \A j \in failed : i <= j]
            ELSE Changed(t, [Pretty(t) EXCEPT !.blocks = blks])

(***************************************************************************)
(* fmt.rs: the dispatcher.  Each format_*_file is the library call it      *)
(* makes (which printer, with which arguments); format_file makes the      *)
(* call the match arm selects.                                             *)
(***************************************************************************)
NoCall == [formatter |-> "none"]

format_typescript_file(path, t) ==
    [formatter |-> "dprint_plugin_typescript", path |-> path, text |-> t,
     config |-> typescript_configuration]

format_json_file(t) ==
    [formatter |-> "dprint_plugin_json", text |-> t, config |-> json_configuration]

format_markdown_file(t) ==
    [formatter |-> "dprint_plugin_markdown", text |-> t,
     config |-> markdown_configuration, callback |-> "format_file"]

ScriptExts == {"js", "ts", "jsx", "tsx"}
DataExts == {"json", "jsonc"}
ProseExts == {"md", "markdown"}
SupportedExts == ScriptExts \cup DataExts \cup ProseExts

\* Mutant: the `markdown` spelling is missing from the prose arm.
Dispatch_MarkdownUnrouted(e, t) ==
    CASE e \in {"js", "ts", "jsx", "tsx"} -> format_typescript_file(fake_path(e), t)
      [] e \in {"json", "jsonc"} -> format_json_file(t)
      [] e \in {"md"} -> format_markdown_file(t)
      [] OTHER -> NoCall

\* The match of format_file: the call the arm for `e` makes.
Dispatch(e, t) ==
    CASE e \in {"js", "ts", "jsx", "tsx"} -> format_typescript_file(fake_path(e), t)
      [] e \in {"json", "jsonc"} -> format_json_file(t)
      [] e \in {"md", "markdown"} -> format_markdown_file(t)
      [] OTHER -> NoCall

RECURSIVE format_file(_, _)

\* Mutant: the block's tag is dropped and every block is formatted as script.
callback_TagDropped(tag, t) == format_file("ts", t)

\* |tag, text, _line_number| format_file(tag, text)
callback(tag, t) == format_file(tag, t)

\* The callback applied to each fenced block of t, in document order.
BlockCalls(t) ==
    [i \in 1..Len(t.blocks) |->
        [tag |-> t.blocks[i].tag, text |-> t.blocks[i].text,
         result |-> callback(t.blocks[i].tag, t.blocks[i].text)]]

format_file(e, t) ==
    LET call == Dispatch(e, t) IN
    CASE call.formatter = "dprint_plugin_typescript" ->
            dprint_plugin_typescript_format_text(call.path, call.text, call.config)
      [] call.formatter = "dprint_plugin_json" ->
            dprint_plugin_json_format_text(call.text, call.config)
      [] call.formatter = "dprint_plugin_markdown" ->
            dprint_plugin_markdown_format_text(call.text, call.config,
                                               BlockCalls(call.text))
      [] OTHER -> OkNone

(***************************************************************************)
(* FormatSpec: format_file on one input, then on the same text (or one of  *)
(* its fenced blocks) under a second extension.                            *)
(***************************************************************************)
Exts == SupportedExts \cup {"txt", "JS"}

NoResult == [kind |-> "", text |-> NoText, err |-> ""]

DriverIdle ==
    /\ check = FALSE /\ patternOk = TRUE /\ entries = <<>>
    /\ disk = <<>> /\ disk0 = <<>>
    /\ idx = 0 /\ pc = "idle" /\ buf = NoText /\ text = NoResult
    /\ ret = "running" /\ log = <<>>

FormatInit ==
    /\ mode = "format"
    /\ propagateBlockErr \in BOOLEAN
    /\ nodeMarkerCoversFile \in BOOLEAN
    /\ ext \in Exts
    /\ contents \in Texts
    /\ fpc = "start"
    /\ result = NoResult
    /\ ext2 = ""
    /\ contents2 = NoText
    /\ result2 = NoResult
    /\ DriverIdle

BlockTexts(t) == {t.blocks[i].text : i \in 1..Len(t.blocks)}

\* format_file(ext, contents)
FormatFile ==
    /\ mode = "format" /\ fpc = "start"
    /\ result' = format_file(ext, contents)
    /\ fpc' = "formatted"
    /\ UNCHANGED <<propagateBlockErr, nodeMarkerCoversFile, mode, ext, contents, ext2, contents2, result2>>
    /\ UNCHANGED dvars

\* format_file(ext2, contents2): the same text, or one of its fenced blocks,
\* as a file of extension ext2
FormatAgain ==
    /\ mode = "format" /\ fpc = "formatted"
    /\ \E e \in Exts, t \in {contents} \cup BlockTexts(contents) :
        /\ ext2' = e
        /\ contents2' = t
        /\ result2' = format_file(e, t)
    /\ fpc' = "done"
    /\ UNCHANGED <<propagateBlockErr, nodeMarkerCoversFile, mode, ext, contents, result>>
    /\ UNCHANGED dvars

FormatNext == FormatFile \/ FormatAgain

FormatSpec == FormatInit /\ [][FormatNext]_vars

(***************************************************************************)
(* Spec: one run of fmt(options).                                          *)
(***************************************************************************)
\* The files a pattern can match, in the order pattern expansion yields them.
PathPool ==
    <<<<"a", "ts">>, <<"b", "json">>, <<"c", "md">>, <<"d", "txt">>,
      <<"e", "JS">>, <<"", "js">>, <<"README">>>>

Paths == {PathPool[i] : i \in 1..Len(PathPool)}

PoolIndex(p) == CHOOSE i \in 1..Len(PathPool) : PathPool[i] = p

\* An Ok(path) or Err(GlobError) item of the iterator glob() returns.
OkEntry(p) == [kind |-> "Ok", path |-> p]
ErrEntry == [kind |-> "Err", path |-> <<>>]

IsExpansion(s) ==
    \A i, j \in 1..Len(s) :
        (i < j /\ s[i].kind = "Ok" /\ s[j].kind = "Ok")
            => PoolIndex(s[i].path) < PoolIndex(s[j].path)

Expansions ==
    {s \in {<<>>} \cup SeqsUpTo({OkEntry(p) : p \in Paths} \cup {ErrEntry}, MaxEntries) :
        IsExpansion(s)}

Matched(s) == {s[i].path : i \in {j \in 1..Len(s) : s[j].kind = "Ok"}}

\* A prose file with two fenced blocks: a json block that does not parse and
\* a block of a language fmt does not know.
DocFile ==
    [Canon EXCEPT !.blocks = <<[tag |-> "json", text |-> Broken],
                               [tag |-> "txt", text |-> Messy]>>]

FileTexts == {Canon, Messy, Broken, DocFile}

\* Mutant: the extension is matched without regard to case.
IsSupported_IgnoringCase(e) ==
    e \in {<<"js">>, <<"ts">>, <<"jsx">>, <<"tsx">>, <<"json">>, <<"jsonc">>,
           <<"md">>, <<"markdown">>, <<"JS">>, <<"TS">>, <<"JSON">>, <<"MD">>}

\* match path.extension().and_then(OsStr::to_str) { Some(ext @ ("js" | ...)) => ..
IsSupported(e) ==
    e \in {<<"js">>, <<"ts">>, <<"jsx">>, <<"tsx">>, <<"json">>, <<"jsonc">>,
           <<"md">>, <<"markdown">>}

\* One observable step of the run: what was done, to which path, and for a
\* format_file call its result kind and text, for a write the text written.
Event(op, path, kind, data) == [op |-> op, path |-> path, kind |-> kind, data |-> data]

Init ==
    /\ mode = "fmt"
    /\ propagateBlockErr \in BOOLEAN
    /\ nodeMarkerCoversFile = FALSE   \* no file of FileTexts carries a directive
    /\ ext = "" /\ contents = NoText /\ fpc = "idle"
    /\ result = NoResult /\ ext2 = "" /\ contents2 = NoText /\ result2 = NoResult
    /\ check \in BOOLEAN
    /\ patternOk \in BOOLEAN
    /\ entries \in Expansions
    /\ patternOk = FALSE => entries = <<>>
    /\ \E cs \in [1..Len(entries) -> FileTexts] :
        /\ \A i \in 1..Len(entries) :
              \/ entries[i].kind = "Ok" /\ IsSupported(extension(entries[i].path))
              \/ entries[i].kind = "Ok" /\ cs[i] \in {Canon, Broken}
              \/ entries[i].kind = "Err" /\ cs[i] = Canon
        /\ disk = [p \in Paths |->
                     IF p \in Matched(entries)
                     THEN cs[CHOOSE i \in 1..Len(entries) : entries[i] = OkEntry(p)]
                     ELSE Canon]
    /\ disk0 = disk
    /\ idx = 0
    /\ pc = "glob"
    /\ buf = NoText
    /\ text = NoResult
    /\ ret = "running"
    /\ log = <<>>

Frozen == UNCHANGED <<propagateBlockErr, nodeMarkerCoversFile, mode, check, patternOk,
                      entries, disk0>>
              /\ UNCHANGED fvars

CurPath == entries[idx].path
CurExt == extension(CurPath)[1]

\* for entry in glob(&options.glob)?
Glob ==
    /\ mode = "fmt" /\ pc = "glob"
    /\ IF patternOk
       THEN /\ idx' = 1 /\ pc' = "next" /\ ret' = ret
       ELSE /\ idx' = idx /\ pc' = "done" /\ ret' = "PatternError"
    /\ UNCHANGED <<disk, buf, text, log>>
    /\ Frozen

\* The iterator is exhausted: Ok(())
GlobEnd ==
    /\ mode = "fmt" /\ pc = "next" /\ idx > Len(entries)
    /\ pc' = "done" /\ ret' = "Ok"
    /\ UNCHANGED <<disk, idx, buf, text, log>>
    /\ Frozen

\* Mutant: an Err item ends the run (`entry?`).
GlobError_Aborts ==
    /\ mode = "fmt" /\ pc = "next" /\ idx <= Len(entries)
    /\ entries[idx].kind = "Err"
    /\ log' = Append(log, Event("eprint", <<>>, "", NoText))
    /\ pc' = "done" /\ ret' = "GlobError"
    /\ UNCHANGED <<disk, idx, buf, text>>
    /\ Frozen

\* Err(e) => println!("{:?}", e)
GlobError ==
    /\ mode = "fmt" /\ pc = "next" /\ idx <= Len(entries)
    /\ entries[idx].kind = "Err"
    /\ log' = Append(log, Event("eprint", <<>>, "", NoText))
    /\ idx' = idx + 1
    /\ UNCHANGED <<disk, pc, buf, text, ret>>
    /\ Frozen

\* Ok(path) with an extension outside the list: _ => {}
SkipEntry ==
    /\ mode = "fmt" /\ pc = "next" /\ idx <= Len(entries)
    /\ entries[idx].kind = "Ok"
    /\ ~IsSupported(extension(CurPath))
    /\ idx' = idx + 1
    /\ UNCHANGED <<disk, pc, buf, text, ret, log>>
    /\ Frozen

\* Ok(path) with a listed extension: the arm of lines 80-91 is entered
TakeEntry ==
    /\ mode = "fmt" /\ pc = "next" /\ idx <= Len(entries)
    /\ entries[idx].kind = "Ok"
    /\ IsSupported(extension(CurPath))
    /\ pc' = "read"
    /\ UNCHANGED <<disk, idx, buf, text, ret, log>>
    /\ Frozen

\* Mutant: a file that cannot be read is skipped and the run goes on.
ReadFile_SkipsUnreadable ==
    /\ mode = "fmt" /\ pc = "read"
    /\ \E ok \in BOOLEAN :
        IF ok
        THEN /\ buf' = disk[CurPath]
             /\ log' = Append(log, Event("read", CurPath, "", NoText))
             /\ pc' = "format" /\ idx' = idx
        ELSE /\ buf' = buf
             /\ log' = Append(log, Event("read_failed", CurPath, "", NoText))
             /\ pc' = "next" /\ idx' = idx + 1
    /\ UNCHANGED <<disk, text, ret>>
    /\ Frozen

\* let contents = std::fs::read_to_string(path.clone())?;
ReadFile ==
    /\ mode = "fmt" /\ pc = "read"
    /\ \E ok \in BOOLEAN :
        IF ok
        THEN /\ buf' = disk[CurPath]
             /\ log' = Append(log, Event("read", CurPath, "", NoText))
             /\ pc' = "format" /\ ret' = ret
        ELSE /\ buf' = buf
             /\ log' = Append(log, Event("read_failed", CurPath, "", NoText))
             /\ pc' = "done" /\ ret' = "io:read"
    /\ UNCHANGED <<disk, idx, text>>
    /\ Frozen

\* Mutant: "no change" is treated as replacement text equal to the input.
FormatEntry_ReportsUnchanged ==
    /\ mode = "fmt" /\ pc = "format"
    /\ LET r == format_file(CurExt, buf) IN
        /\ log' = Append(log, Event("format", CurPath, r.kind, r.text))
        /\ text' = IF r.kind = "None" THEN OkSome(buf) ELSE r
        /\ CASE r.kind = "Err" -> /\ pc' = "done" /\ ret' = r.err /\ idx' = idx
             [] OTHER -> /\ pc' = "print" /\ ret' = ret /\ idx' = idx
    /\ UNCHANGED <<disk, buf>>
    /\ Frozen

\* if let Some(text) = format_file(ext, &contents)? {
FormatEntry ==
    /\ mode = "fmt" /\ pc = "format"
    /\ LET r == format_file(CurExt, buf) IN
        /\ log' = Append(log, Event("format", CurPath, r.kind, r.text))
        /\ text' = r
        /\ CASE r.kind = "Err" -> /\ pc' = "done" /\ ret' = r.err /\ idx' = idx
             [] r.kind = "Some" -> /\ pc' = "print" /\ ret' = ret /\ idx' = idx
             [] OTHER -> /\ pc' = "next" /\ ret' = ret /\ idx' = idx + 1
    /\ UNCHANGED <<disk, buf>>
    /\ Frozen

\* Mutant: the check flag is not consulted before the write.
PrintLine_AlwaysWrites ==
    /\ mode = "fmt" /\ pc = "print"
    /\ log' = Append(log, Event("print", CurPath, "", NoText))
    /\ pc' = "write" /\ idx' = idx
    /\ UNCHANGED <<disk, buf, text, ret>>
    /\ Frozen

\* println!("fmt: {}", path.display()); if !options.check {
PrintLine ==
    /\ mode = "fmt" /\ pc = "print"
    /\ log' = Append(log, Event("print", CurPath, "", NoText))
    /\ IF ~check
       THEN /\ pc' = "write" /\ idx' = idx
       ELSE /\ pc' = "next" /\ idx' = idx + 1
    /\ UNCHANGED <<disk, buf, text, ret>>
    /\ Frozen

\* Mutant: the result of the write is dropped (`let _ = std::fs::write(..)`).
WriteFile_IgnoresFailure ==
    /\ mode = "fmt" /\ pc = "write"
    /\ \E outcome \in {"written", "untouched", "truncated"} :
        /\ disk' = CASE outcome = "written" -> [disk EXCEPT ![CurPath] = text.text]
                     [] outcome = "truncated" -> [disk EXCEPT ![CurPath] = Truncated]
                     [] OTHER -> disk
        /\ log' = Append(log, Event(IF outcome = "written" THEN "write" ELSE "write_failed",
                                    CurPath, "",
                                    IF outcome = "written" THEN text.text ELSE NoText))
    /\ pc' = "next" /\ idx' = idx + 1
    /\ UNCHANGED <<buf, text, ret>>
    /\ Frozen

\* std::fs::write(path, text)?;  A write that fails leaves the file as it
\* was, or truncated.
WriteFile ==
    /\ mode = "fmt" /\ pc = "write"
    /\ \E outcome \in {"written", "untouched", "truncated"} :
        IF outcome = "written"
        THEN /\ disk' = [disk EXCEPT ![CurPath] = text.text]
             /\ log' = Append(log, Event("write", CurPath, "", text.text))
             /\ pc' = "next" /\ idx' = idx + 1 /\ ret' = ret
        ELSE /\ disk' = IF outcome = "truncated"
                         THEN [disk EXCEPT ![CurPath] = Truncated] ELSE disk
             /\ log' = Append(log, Event("write_failed", CurPath, "", NoText))
             /\ pc' = "done" /\ idx' = idx /\ ret' = "io:write"
    /\ UNCHANGED <<buf, text>>
    /\ Frozen

Next ==
    \/ Glob \/ GlobEnd \/ GlobError \/ SkipEntry \/ TakeEntry
    \/ ReadFile \/ FormatEntry \/ PrintLine \/ WriteFile

Spec == Init /\ [][Next]_vars

(***************************************************************************)
(* Reading the history of a run.                                           *)
(***************************************************************************)
At(op, p) == {i \in 1..Len(log) : log[i].op = op /\ log[i].path = p}

FormatAt(p, k) == {i \in At("format", p) : log[i].kind = k}

WritesAt(p) == At("write", p) \cup At("write_failed", p)

EntryOf(p) == CHOOSE i \in 1..Len(entries) : entries[i] = OkEntry(p)

\* The extension is not exactly one of the eight.
Unsupported(p) == extension(p) = <<>> \/ extension(p)[1] \notin SupportedExts

ReadFailures == {i \in 1..Len(log) : log[i].op = "read_failed"}
FormatFailures == {i \in 1..Len(log) : log[i].op = "format" /\ log[i].kind = "Err"}
WriteFailures == {i \in 1..Len(log) : log[i].op = "write_failed"}

(***************************************************************************)
(* C1.  A run with check = true writes no file: the disk stays what it was *)
(* when the run started, whatever format_file returned.  A run with        *)
(* check = false that returns Ok has written exactly the files for which   *)
(* format_file returned replacement text, each once and with that text,    *)
(* and has left every other file as it was.                                *)
(***************************************************************************)
C1_CheckWritesNothing_WriteWritesReplaced ==
    /\ check =>
        /\ disk = disk0
        /\ \A i \in 1..Len(log) : log[i].op \notin {"write", "write_failed"}
    /\ (~check /\ pc = "done" /\ ret = "Ok") =>
        \A p \in Paths :
            /\ (At("write", p) # {}) <=> (FormatAt(p, "Some") # {})
            /\ Cardinality(At("write", p)) <= 1
            /\ \A i \in FormatAt(p, "Some") :
                  /\ disk[p] = log[i].data
                  /\ \A j \in At("write", p) : log[j].data = log[i].data
            /\ FormatAt(p, "Some") = {} => disk[p] = disk0[p]

\* A write-mode run that returned Ok after writing one file and leaving
\* another, already canonical, alone.
C1_Witness ==
    /\ ~check /\ pc = "done" /\ ret = "Ok"
    /\ \E p, q \in Paths :
        /\ At("write", p) # {} /\ disk[p] # disk0[p]
        /\ FormatAt(q, "None") # {} /\ At("write", q) = {}

(***************************************************************************)
(* C2.  A file whose format_file result is replacement text gets exactly   *)
(* one `fmt: <path>` line, printed after the result is known and before    *)
(* the file is written; a file whose result is "no change" (or a failure)  *)
(* gets no line and no write; the lines come in pattern-expansion order.   *)
(***************************************************************************)
C2_OneLineBeforeWrite ==
    /\ \A p \in Paths :
        /\ Cardinality(At("print", p)) <= 1
        /\ \A i \in At("print", p) : \E j \in FormatAt(p, "Some") : j < i
        /\ \A i \in WritesAt(p) : \E j \in At("print", p) : j < i
        /\ FormatAt(p, "Some") = {} => (At("print", p) = {} /\ WritesAt(p) = {})
        /\ (FormatAt(p, "Some") # {} /\ ~(pc = "print" /\ CurPath = p))
              => Cardinality(At("print", p)) = 1
    /\ \A i, j \in 1..Len(log) :
        (i < j /\ log[i].op = "print" /\ log[j].op = "print")
            => EntryOf(log[i].path) < EntryOf(log[j].path)

\* Two files reported in expansion order, one of them written, and a third
\* file whose result was "no change".
C2_Witness ==
    \E p, q, r \in Paths :
        /\ At("print", p) # {} /\ At("print", q) # {} /\ EntryOf(p) < EntryOf(q)
        /\ At("write", p) # {}
        /\ FormatAt(r, "None") # {}

(***************************************************************************)
(* C3.  An entry whose extension is not exactly one of the eight is never  *)
(* read, formatted, reported or written, whatever its content and whatever *)
(* the check flag, and the step that meets it only moves on to the next    *)
(* entry.                                                                  *)
(***************************************************************************)
C3_Untouched ==
    /\ \A i \in 1..Len(log) : log[i].op # "eprint" => ~Unsupported(log[i].path)
    /\ \A p \in Paths : Unsupported(p) => disk[p] = disk0[p]

C3_SkipStep ==
    (/\ pc = "next" /\ idx <= Len(entries)
     /\ entries[idx].kind = "Ok" /\ Unsupported(entries[idx].path))
        => (/\ idx' = idx + 1 /\ pc' = "next" /\ ret' = "running"
            /\ log' = log /\ disk' = disk)

C3_UnsupportedSkipped == []C3_Untouched /\ [][C3_SkipStep]_vars

\* `e.JS` and `README` were both met, with broken content, and the run went
\* on to read a supported file after them.
C3_Witness ==
    /\ Len(entries) = 3
    /\ entries[1] = OkEntry(<<"a", "ts">>)
    /\ entries[2] = OkEntry(<<"e", "JS">>)
    /\ entries[3] = OkEntry(<<"README">>)
    /\ disk0[<<"e", "JS">>] = Broken
    /\ At("read", <<"a", "ts">>) # {}
    /\ pc = "done" /\ ret = "Ok"

(***************************************************************************)
(* C4.  A failed read or a failed format_file call for the k-th entry is   *)
(* the last thing the run does: fmt returns that error, entry k is neither *)
(* reported nor written and keeps its content, no later entry is touched,  *)
(* and every file written before keeps its replacement text.               *)
(***************************************************************************)
C4_FailureStopsRun ==
    \A i \in ReadFailures \cup FormatFailures :
        LET p == log[i].path
            k == EntryOf(p)
        IN  /\ i = Len(log)
            /\ pc = "done" /\ idx = k
            /\ ret = (IF i \in ReadFailures THEN "io:read" ELSE "syntax")
            /\ ~ENABLED Next
            /\ At("print", p) = {} /\ WritesAt(p) = {}
            /\ disk[p] = disk0[p]
            /\ \A j \in (k + 1)..Len(entries) :
                  entries[j].kind = "Ok" =>
                      /\ \A n \in 1..Len(log) : log[n].path # entries[j].path
                      /\ disk[entries[j].path] = disk0[entries[j].path]
            /\ \A q \in Paths : \A w \in At("write", q) :
                  disk[q] = log[w].data /\ disk[q] # disk0[q]

\* format_file fails for the second entry after the first was written, with
\* a third entry still to come.
C4_Witness ==
    /\ Len(entries) = 3 /\ idx = 2
    /\ FormatFailures # {}
    /\ entries[1].kind = "Ok" /\ At("write", entries[1].path) # {}
    /\ entries[3].kind = "Ok" /\ ~Unsupported(entries[3].path)
    /\ disk0[entries[3].path] = Messy

(***************************************************************************)
(* C5.  An Err item of the pattern expansion is printed and skipped: the   *)
(* step changes nothing but the output and the iterator's position, the    *)
(* run goes on to every later entry, and fmt fails only for a failure of   *)
(* its own (an invalid pattern, a read, a format_file call, a write).      *)
(***************************************************************************)
ErrEntriesBefore(n) == {i \in 1..Len(entries) : i < n /\ entries[i].kind = "Err"}

C5_Printed ==
    /\ Cardinality({i \in 1..Len(log) : log[i].op = "eprint"})
          = Cardinality(ErrEntriesBefore(idx))
    /\ ret \notin {"running", "Ok"} =>
          \/ ret = "PatternError" /\ ~patternOk /\ log = <<>>
          \/ Len(log) \in ReadFailures \cup FormatFailures \cup WriteFailures
    /\ (pc = "done" /\ ret = "Ok") =>
          /\ idx = Len(entries) + 1
          /\ \A i \in 1..Len(entries) :
                (entries[i].kind = "Ok" /\ ~Unsupported(entries[i].path))
                    => At("read", entries[i].path) # {}

C5_ErrStep ==
    (pc = "next" /\ idx <= Len(entries) /\ entries[idx].kind = "Err")
        => (/\ idx' = idx + 1 /\ pc' = "next" /\ ret' = "running"
            /\ log' = Append(log, Event("eprint", <<>>, "", NoText))
            /\ disk' = disk /\ buf' = buf /\ text' = text)

C5_ExpansionErrorSkipped == []C5_Printed /\ [][C5_ErrStep]_vars

\* An Err item came first, the two files after it were processed (one
\* written), and fmt returned Ok.
C5_Witness ==
    /\ Len(entries) = 3 /\ entries[1].kind = "Err"
    /\ entries[2].kind = "Ok" /\ At("write", entries[2].path) # {}
    /\ entries[3].kind = "Ok" /\ At("read", entries[3].path) # {}
    /\ pc = "done" /\ ret = "Ok"

(***************************************************************************)
(* C6 as stated.  fmt returns Ok exactly when the pattern is valid and no  *)
(* read and no format_file call failed.                                    *)
(***************************************************************************)
C6_Original ==
    pc = "done" =>
        (ret = "Ok" <=> (patternOk /\ ReadFailures = {} /\ FormatFailures = {}))

(***************************************************************************)
(* C6 as amended.  fmt returns Ok exactly when the pattern is valid and no *)
(* read, no format_file call and no write failed; a write can fail only    *)
(* with check = false; the error returned is that of the failing call.     *)
(***************************************************************************)
C6_ReturnContract ==
    /\ pc = "done" =>
        /\ ret = "Ok" <=>
              (patternOk /\ ReadFailures = {} /\ FormatFailures = {}
                 /\ WriteFailures = {})
        /\ ret = "PatternError" <=> ~patternOk
        /\ ret = "io:read" <=> ReadFailures # {}
        /\ ret = "syntax" <=> FormatFailures # {}
        /\ ret = "io:write" <=> WriteFailures # {}
    /\ pc # "done" => ret = "running"
    /\ check => WriteFailures = {}

\* Every read and every format_file call succeeded, a write failed, and fmt
\* returned the write's error.
C6_Witness ==
    /\ pc = "done" /\ ret = "io:write" /\ ~check
    /\ patternOk /\ ReadFailures = {} /\ FormatFailures = {}
    /\ \E p \in Paths : At("write", p) # {}

(***************************************************************************)
(* The language tag of an extension.                                       *)
(***************************************************************************)
Tag(e) ==
    CASE e \in ScriptExts -> "script"
      [] e \in DataExts -> "structured-data"
      [] e \in ProseExts -> "prose"
      [] OTHER -> "unsupported"

(***************************************************************************)
(* C7 as stated.  For every supported extension, format_file on a text     *)
(* that begins with the `bueno-fmt-ignore-file` directive returns "no      *)
(* change", and the printer it calls is configured with that whole-file    *)
(* marker.                                                                 *)
(***************************************************************************)
C7_Original ==
    (fpc # "start" /\ ext \in SupportedExts /\ contents.dir = IgnoreFileMarker) =>
        /\ result = OkNone
        /\ WholeFileMarker(Dispatch(ext, contents).config) = IgnoreFileMarker

(***************************************************************************)
(* C7 as amended.  For the script and the prose extensions, format_file on *)
(* a text that begins with the directive returns "no change" whatever the  *)
(* rest of the text is, and the printer is configured with the whole-file  *)
(* marker; the structured-data printer is configured with the node-level   *)
(* marker `bueno-fmt-ignore` only and with no whole-file marker.           *)
(***************************************************************************)
C7_IgnoreFileScriptAndProse ==
    (fpc # "start" /\ contents.dir = IgnoreFileMarker) =>
        /\ ext \in ScriptExts \cup ProseExts =>
              /\ result = OkNone
              /\ WholeFileMarker(Dispatch(ext, contents).config) = IgnoreFileMarker
        /\ ext \in DataExts =>
              /\ WholeFileMarker(Dispatch(ext, contents).config) = ""
              /\ Dispatch(ext, contents).config.ignore_node_comment_text
                    = "bueno-fmt-ignore"

\* A text that no grammar accepts, behind the directive: "no change" as a
\* script file and as a prose file.
C7_Witness ==
    /\ fpc = "done" /\ contents = IgnoredBroken /\ contents2 = contents
    /\ ext = "tsx" /\ result = OkNone
    /\ ext2 = "markdown" /\ result2 = OkNone

(***************************************************************************)
(* C8 as stated.  Two extensions of one language tag make the same call    *)
(* (same printer, same configuration, same arguments) for the same text,   *)
(* and so return identical results.                                        *)
(***************************************************************************)
C8_Original ==
    (/\ fpc = "done" /\ contents2 = contents
     /\ ext \in SupportedExts /\ Tag(ext) = Tag(ext2)) =>
        /\ Dispatch(ext, contents) = Dispatch(ext2, contents2)
        /\ result = result2

(***************************************************************************)
(* C8 as amended.  Two extensions of one language tag call the same        *)
(* printer with the same configuration and the same text.  For json/jsonc  *)
(* and md/markdown the calls are equal in every argument and return        *)
(* identical results.  For js, ts, jsx, tsx the path argument is           *)
(* `file.<ext>`: two different script extensions pass different paths.     *)
(***************************************************************************)
C8_AliasesShareFormatterAndConfig ==
    (/\ fpc = "done" /\ contents2 = contents
     /\ ext \in SupportedExts /\ Tag(ext) = Tag(ext2)) =>
        LET c1 == Dispatch(ext, contents)
            c2 == Dispatch(ext2, contents2)
        IN  /\ c1.formatter = c2.formatter
            /\ c1.config = c2.config
            /\ c1.text = contents /\ c2.text = contents
            /\ Tag(ext) # "script" => (c1 = c2 /\ result = result2)
            /\ Tag(ext) = "script" =>
                  /\ c1.path = <<"file", ext>>
                  /\ c2.path = <<"file", ext2>>
                  /\ (c1 = c2) <=> (ext = ext2)

\* The same text formatted as `js` and as `jsx`: one printer, one
\* configuration, the paths `file.js` and `file.jsx`.
C8_Witness ==
    /\ fpc = "done" /\ contents2 = contents
    /\ ext = "js" /\ ext2 = "jsx"
    /\ result.kind = "Some" /\ result2.kind = "Some"
    /\ Dispatch(ext, contents).path # Dispatch(ext2, contents2).path

(***************************************************************************)
(* C10.  For a prose document, the callback applied to a fenced block with *)
(* tag g and text x is format_file(g, x): the result a top-level file of   *)
(* extension g with text x gets (a failure included), "no change" when g   *)
(* is not one of the eight extensions; each call is on a text nested less  *)
(* deeply than the document.                                               *)
(***************************************************************************)
C10_CallbackIsFormatFile ==
    (fpc = "done" /\ ext \in ProseExts) =>
        \A i \in 1..Len(contents.blocks) :
            LET c == BlockCalls(contents)[i] IN
            /\ c.tag = contents.blocks[i].tag
            /\ c.text = contents.blocks[i].text
            /\ c.tag \notin SupportedExts => c.result = OkNone
            /\ (ext2 = c.tag /\ contents2 = c.text) => c.result = result2
            /\ Depth(c.text) < Depth(contents)

\* A document with a json block that does not parse and a block of an
\* unknown language: the first block's callback fails as the top-level json
\* file does, the second gets "no change".
C10_Witness ==
    /\ fpc = "done" /\ ext = "md"
    /\ Len(contents.blocks) = 2
    /\ contents.blocks[1] = [tag |-> "json", text |-> Broken]
    /\ contents.blocks[2] = [tag |-> "txt", text |-> Messy]
    /\ ext2 = "json" /\ contents2 = Broken
    /\ result2.kind = "Err"
    /\ BlockCalls(contents)[1].result = result2
    /\ BlockCalls(contents)[2].result = OkNone

====
